---- MODULE Spec2Model ----
(***************************************************************************)
(* Read-through file cache of src/ds/data.py: get_stock_data,              *)
(* get_company_financials, get_company_info, get_quarterly_financials,     *)
(* get_holders_and_recommendations and get_treasury_yield, over a cache    *)
(* directory (RAW_DATA_DIR) and the yfinance provider.                     *)
(***************************************************************************)
EXTENDS Naturals, Sequences, FiniteSets, TLC

VARIABLES fs, frames, last, ncalls

vars == <<fs, frames, last, ncalls>>

(* ------------------------------ bounds --------------------------------- *)

\* Number of fetch calls issued in one behaviour.
MaxCalls == 2

\* Number of distinct non-empty answers the provider can give to one query.
NumRecs == 2

(* ------------------------------ inputs --------------------------------- *)

\* Identifiers are unvalidated strings; the second one contains the
\* separator the path templates use.
Tickers == {"A", "A_quarterly"}

\* start arguments of get_stock_data / get_treasury_yield (their defaults).
Starts == {"2023-01-01", "2019-01-01"}

\* Processes that may call into the module.  The cache directory is the
\* only thing they share.
Procs == {"p1", "p2"}

\* The process of the sequential specification.
Main == "p1"

Fns == {"get_stock_data", "get_company_financials", "get_company_info",
        "get_quarterly_financials", "get_holders_and_recommendations",
        "get_treasury_yield"}

(* --------------------------- cache keys -------------------------------- *)

RAW_DATA_DIR == "data/raw/"

\* The function whose body runs: get_treasury_yield delegates.
Body(fn) == IF fn = "get_treasury_yield" THEN "get_stock_data" ELSE fn

\* The `types` dict of each bundle, in insertion order, as <<name, yf_attr>>;
\* the single-record functions have one implicit sub-kind.
types(fn) ==
  CASE Body(fn) = "get_stock_data" -> << <<"", "download">> >>
    [] Body(fn) = "get_company_info" -> << <<"info", "info">> >>
    [] Body(fn) = "get_company_financials" ->
         << <<"income_stmt", "financials">>,
            <<"balance_sheet", "balance_sheet">>,
            <<"cashflow", "cashflow">> >>
    [] Body(fn) = "get_quarterly_financials" ->
         << <<"income_stmt", "quarterly_financials">>,
            <<"balance_sheet", "quarterly_balance_sheet">>,
            <<"cashflow", "quarterly_cashflow">> >>
    [] Body(fn) = "get_holders_and_recommendations" ->
         << <<"institutional_holders", "institutional_holders">>,
            <<"major_holders", "major_holders">>,
            <<"recommendations", "recommendations">> >>

NSub(fn) == Len(types(fn))

MaxSub == 3

Slots == 1..MaxSub

\* cache_file = RAW_DATA_DIR / f"..." of each function.
\* (variant) the sub-kind name left out of the bundle templates.
cache_file_NoName(fn, ticker, name) ==
  CASE Body(fn) = "get_stock_data" -> RAW_DATA_DIR \o ticker \o ".csv"
    [] Body(fn) = "get_company_info" -> RAW_DATA_DIR \o ticker \o "_info.json"
    [] Body(fn) = "get_company_financials" ->
         RAW_DATA_DIR \o ticker \o "_annual.csv"
    [] Body(fn) = "get_quarterly_financials" ->
         RAW_DATA_DIR \o ticker \o "_quarterly.csv"
    [] Body(fn) = "get_holders_and_recommendations" ->
         RAW_DATA_DIR \o ticker \o "_holders.csv"

cache_file(fn, ticker, name) ==
  CASE Body(fn) = "get_stock_data" -> RAW_DATA_DIR \o ticker \o ".csv"
    [] Body(fn) = "get_company_info" -> RAW_DATA_DIR \o ticker \o "_info.json"
    [] Body(fn) = "get_company_financials" ->
         RAW_DATA_DIR \o ticker \o "_" \o name \o ".csv"
    [] Body(fn) = "get_quarterly_financials" ->
         RAW_DATA_DIR \o ticker \o "_quarterly_" \o name \o ".csv"
    [] Body(fn) = "get_holders_and_recommendations" ->
         RAW_DATA_DIR \o ticker \o "_" \o name \o ".csv"

\* A cache key: (function body, identifier, sub-kind name).
Keys ==
  UNION {{<<Body(fn), t, types(fn)[i][1]>> : i \in 1..NSub(fn)} :
           fn \in Fns, t \in Tickers}

KeyPath(k) == cache_file(k[1], k[2], k[3])

Paths == {KeyPath(k) : k \in Keys}

(* ------------------------------ records -------------------------------- *)

\* Python None, and "no value" / "no file" markers.
NoneRec == [t |-> "none"]

NoVal == [t |-> "noval"]

NoFile == [t |-> "nofile"]

\* A DataFrame.  idx: type of the index ("date", "label", "range", "int");
\* hdr: type of the column headers ("date" datetime, "str" plain strings,
\* "datestr" strings that spell dates, "multi" two-level); v: which data
\* (0 = no rows); rows: "all" or "some" of the rows of v; q: the provider
\* query <<ticker, attribute>> the data answers; rng: the start it covers.
Table(idx, hdr, v, rows, q, rng) ==
  [t |-> "table", idx |-> idx, hdr |-> hdr, v |-> v, rows |-> rows,
   q |-> q, rng |-> rng]

\* A dict (Ticker.info); v = 0 is the empty dict.
Dict(v, q) == [t |-> "dict", v |-> v, q |-> q]

\* A file of zero bytes: what open(path, "w") leaves before anything is
\* written to it.
EmptyFile == [t |-> "zero"]

\* A delimited-text file: lead is the text of the leading index column
\* ("absent" when written with index=False), hdr the text of the header
\* line, cut whether the file is complete ("none") or stops after some of
\* the rows ("partial").
Csv(lead, hdr, v, q, rng, cut) ==
  [t |-> "csv", lead |-> lead, hdr |-> hdr, v |-> v, q |-> q, rng |-> rng,
   cut |-> cut]

\* A JSON document.
Json(v, q, cut) == [t |-> "json", v |-> v, q |-> q, cut |-> cut]

\* How pandas spells an index or header in text.
Text(ty) ==
  CASE ty = "date" -> "datetext"
    [] ty = "datestr" -> "datetext"
    [] ty = "range" -> "inttext"
    [] ty = "int" -> "inttext"
    [] OTHER -> "text"

(* ------------------------- serialization adapters ---------------------- *)

\* df.empty
empty(df) == df.v = 0

\* DataFrame.to_csv(cache_file, index=index): the complete file.
to_csv(df, index) ==
  Csv(IF index THEN Text(df.idx) ELSE "absent", Text(df.hdr), df.v, df.q,
      df.rng, "none")

\* json.dump(info, f, indent=4): the complete document.
json_dump(info) == Json(info.v, info.q, "none")

\* A result of a fallible step.
Ok(val) == [ok |-> TRUE, val |-> val]

Err(kind) == [ok |-> FALSE, val |-> [t |-> "error", kind |-> kind]]

\* pd.read_csv(cache_file, index_col=..., parse_dates=...).  A missing file
\* raises FileNotFoundError; a zero-byte file raises EmptyDataError; a file
\* cut after some rows parses as a shorter table; a JSON document parses as
\* lines of text.
read_csv(c, index_col, parse_dates) ==
  IF c = NoFile THEN Err("nofile")
  ELSE IF c = EmptyFile THEN Err("decode")
  ELSE IF c.t = "json" THEN
    Ok(Table(IF index_col THEN "label" ELSE "range", "str", c.v,
                  IF c.cut = "none" THEN "all" ELSE "some", c.q, "n/a"))
  ELSE
    Ok(Table(
         IF ~index_col THEN "range"
         ELSE CASE c.lead = "datetext" -> IF parse_dates THEN "date" ELSE "label"
                [] c.lead = "inttext" -> "int"
                [] c.lead = "text" -> "label"
                [] OTHER -> "datacol",
         IF c.hdr = "datetext" THEN "datestr" ELSE "str",
         c.v,
         IF c.cut = "none" THEN "all" ELSE "some",
         c.q, c.rng))

\* pd.to_datetime(df.columns) inside try/except: pass.
to_datetime_columns(df) ==
  IF df.hdr = "datestr" THEN [df EXCEPT !.hdr = "date"] ELSE df

\* json.load(f): a cut or empty document is malformed.
json_load(c) ==
  IF c = NoFile THEN Err("nofile")
  ELSE IF c = EmptyFile THEN Err("decode")
  ELSE IF c.t = "json" /\ c.cut = "none" THEN Ok(Dict(c.v, c.q))
  ELSE Err("decode")

\* (variant) the date conversion of the headers outside try/except: headers
\* that are not dates make the read fail.
Decode_Strict(fn, c) ==
  CASE Body(fn) = "get_stock_data" -> read_csv(c, TRUE, TRUE)
    [] Body(fn) = "get_company_info" -> json_load(c)
    [] Body(fn) \in {"get_company_financials", "get_quarterly_financials"} ->
         LET r == read_csv(c, TRUE, FALSE)
         IN  IF r.ok /\ r.val.hdr = "datestr"
               THEN Ok(to_datetime_columns(r.val))
               ELSE Err("decode")
    [] Body(fn) = "get_holders_and_recommendations" -> read_csv(c, FALSE, FALSE)

\* The read adapter of each function (the cache-hit branch).
Decode(fn, c) ==
  CASE Body(fn) = "get_stock_data" -> read_csv(c, TRUE, TRUE)
    [] Body(fn) = "get_company_info" -> json_load(c)
    [] Body(fn) \in {"get_company_financials", "get_quarterly_financials"} ->
         LET r == read_csv(c, TRUE, FALSE)
         IN  IF r.ok THEN Ok(to_datetime_columns(r.val)) ELSE r
    [] Body(fn) = "get_holders_and_recommendations" -> read_csv(c, FALSE, FALSE)

\* (variant) every table written with index=False.
Encode_NoIndex(fn, df) ==
  CASE Body(fn) = "get_company_info" -> json_dump(df)
    [] OTHER -> to_csv(df, FALSE)

\* The write adapter of each function.
Encode(fn, df) ==
  CASE Body(fn) = "get_company_info" -> json_dump(df)
    [] Body(fn) = "get_holders_and_recommendations" -> to_csv(df, FALSE)
    [] OTHER -> to_csv(df, TRUE)

\* What a write that failed after the file was opened leaves behind:
\* nothing of the content, or the beginning of it.
Truncated(c, cut) == IF cut = "empty" THEN EmptyFile ELSE [c EXCEPT !.cut = cut]

\* df["Close"]
HasClose(df) ==
  df.t = "table" /\ df.hdr = "str" /\ Len(df.q) = 2 /\ df.q[2] = "download"

Close(df) ==
  [t |-> "series", col |-> "Close", idx |-> df.idx, v |-> df.v,
   rows |-> df.rows, q |-> df.q, rng |-> df.rng]

(* ------------------------------ provider ------------------------------- *)

\* The column labels of a financial statement: period-end dates, or, for
\* every second record, labels that are not dates (the case lines 75-78
\* and 148-151 provide for).
StatementHdr(v) == IF v % 2 = 0 /\ v > 0 THEN "str" ELSE "date"

\* What yfinance can answer to one access (an exception apart): None, an
\* empty result, or one of NumRecs non-empty results.
Answers(ticker, attr, start) ==
  {NoneRec} \cup
  (CASE attr = "download" ->
          {Table("date", h, v, "all", <<ticker, attr>>, start) :
             h \in {"str", "multi"}, v \in 0..NumRecs}
     [] attr = "info" -> {Dict(v, <<ticker, attr>>) : v \in 0..NumRecs}
     [] attr \in {"institutional_holders", "major_holders", "recommendations"} ->
          {Table("range", "str", v, "all", <<ticker, attr>>, "n/a") : v \in 0..NumRecs}
     [] OTHER ->
          {Table("label", StatementHdr(v), v, "all", <<ticker, attr>>, "n/a") :
             v \in 0..NumRecs})

(* ------------------------------- state --------------------------------- *)

\* fs     : the cache directory, path -> file content or NoFile.
\* frames : per process, the activation of the fetch function it runs.
\* last   : what the call before the current one fetched and wrote and
\*          how it ended (pc; i: the sub-kind it ended at), kept when the
\*          current call asks for the same data of the same ticker
\*          (NoLast otherwise).
\* ncalls : number of calls begun.

None3 == [i \in Slots |-> NoVal]

Zero3 == [i \in Slots |-> 0]

NoFile3 == [i \in Slots |-> NoFile]

\* pc: "idle", "loop" (head of an iteration: the use_cache/exists test),
\* "download" (the provider access), "save" (the cache write), "returned",
\* "raised".  i: the sub-kind in hand.  df: the fetched record awaiting
\* its write.  result: the value built for each sub-kind.  calls / reads:
\* provider accesses and cache reads per sub-kind.  got: the provider's
\* answer per sub-kind, as normalised.  saved: the file content
\* this call wrote per sub-kind.  fs0: the directory as the call found it.
\* err: the exception that left the function.  pfail / wfail: the sub-kind
\* whose provider access / cache write raised (0: none).  wdone: when,
\* among the writes of processes running side by side, the write of each
\* sub-kind completed (0: not written; see Clock).
IdleFrame ==
  [pc |-> "idle", fn |-> "", ticker |-> "", start |-> "", use_cache |-> TRUE,
   i |-> 1, df |-> NoVal, result |-> None3, calls |-> Zero3, reads |-> Zero3,
   got |-> None3, saved |-> NoFile3, fs0 |-> [p \in Paths |-> NoFile],
   err |-> "none", pfail |-> 0, wfail |-> 0, wdone |-> Zero3]

NoLast ==
  [fn |-> "", ticker |-> "", pc |-> "idle", i |-> 1, got |-> None3,
   saved |-> NoFile3]

Summary(f) ==
  [fn |-> f.fn, ticker |-> f.ticker, pc |-> f.pc, i |-> f.i, got |-> f.got,
   saved |-> f.saved]

Finished(f) == f.pc \in {"idle", "returned", "raised"}

Init ==
  /\ fs = [p \in Paths |-> NoFile]
  /\ frames = [p \in Procs |-> IdleFrame]
  /\ last = NoLast
  /\ ncalls = 0

\* cache_file of the iteration in hand.
CurName(f) == types(f.fn)[f.i][1]

CurAttr(f) == types(f.fn)[f.i][2]

CurFile(f) == cache_file(f.fn, f.ticker, CurName(f))

\* cache_file.exists()
exists(store, path) == store[path] # NoFile

(* ------------------------------ control -------------------------------- *)

\* (variant) get_treasury_yield hands out the whole table.
Return_NoClose(f) == [f EXCEPT !.pc = "returned"]

\* get_treasury_yield line 213: df["Close"] on what get_stock_data returned.
Return(f) ==
  IF f.fn = "get_treasury_yield" THEN
    IF HasClose(f.result[1])
      THEN [f EXCEPT !.pc = "returned", !.result[1] = Close(f.result[1])]
      ELSE [f EXCEPT !.pc = "raised", !.err = "key"]
  ELSE [f EXCEPT !.pc = "returned"]

\* (variant) a sub-kind answered with an empty table is tried again.
Advance_Stay(f, val) ==
  LET g == [f EXCEPT !.result[f.i] = val, !.df = NoVal]
  IN  IF val.t = "table" /\ val.v = 0 /\ f.calls[f.i] > 0
        THEN [g EXCEPT !.pc = "loop"]
      ELSE IF f.i < NSub(f.fn) THEN [g EXCEPT !.i = f.i + 1, !.pc = "loop"]
      ELSE Return(g)

\* End of one iteration with value val for the sub-kind in hand: the next
\* iteration of the for loop, or the return statement after the last one.
Advance(f, val) ==
  LET g == [f EXCEPT !.result[f.i] = val, !.df = NoVal]
  IN  IF f.i < NSub(f.fn) THEN [g EXCEPT !.i = f.i + 1, !.pc = "loop"]
      ELSE Return(g)

\* An exception leaves the function: nothing is returned.
Raise(f, kind) == [f EXCEPT !.pc = "raised", !.err = kind, !.df = NoVal]

(* ------------------------------ actions -------------------------------- *)

StartsOf(fn) == IF Body(fn) = "get_stock_data" THEN Starts ELSE {"n/a"}

\* A call of one of the six functions by process p.
Begin(p, fn, ticker, start, use_cache) ==
  /\ Finished(frames[p])
  /\ ncalls < MaxCalls
  /\ ncalls' = ncalls + 1
  /\ last' = IF /\ frames[p].pc \in {"returned", "raised"}
                /\ Body(frames[p].fn) = Body(fn)
                /\ frames[p].ticker = ticker
               THEN Summary(frames[p]) ELSE NoLast
  /\ frames' = [frames EXCEPT ![p] =
       [IdleFrame EXCEPT !.pc = "loop", !.fn = fn, !.ticker = ticker,
                         !.start = start, !.use_cache = use_cache, !.fs0 = fs]]
  /\ UNCHANGED fs

\* `if use_cache and cache_file.exists():` and, when it holds, the read
\* branch; otherwise control reaches the provider access.
\* (variants) the flag ignored; the flag inverted; the test made on the
\* first sub-kind's file for the whole bundle.
HitTest_NoFlag(f, store) == exists(store, CurFile(f))

HitTest_Inverted(f, store) == ~f.use_cache /\ exists(store, CurFile(f))

HitTest_First(f, store) ==
  f.use_cache /\ exists(store, cache_file(f.fn, f.ticker, types(f.fn)[1][1]))

\* (variant) a price file counts as a hit only for the start it was
\* fetched for.
HitTest_Range(f, store) ==
  /\ f.use_cache /\ exists(store, CurFile(f))
  /\ (Body(f.fn) = "get_stock_data" /\ store[CurFile(f)].t = "csv") =>
       store[CurFile(f)].rng = f.start

HitTest(f, store) == f.use_cache /\ exists(store, CurFile(f))

\* (variant) a cache file that does not parse is deleted before the error
\* is raised.
Lookup_Evict(p) ==
  LET f == frames[p] IN
  /\ f.pc = "loop"
  /\ IF HitTest(f, fs)
       THEN LET r == Decode(f.fn, fs[CurFile(f)])
                g == [f EXCEPT !.reads[f.i] = @ + 1]
            IN  /\ frames' = [frames EXCEPT ![p] =
                     IF r.ok THEN Advance(g, r.val) ELSE Raise(g, r.val.kind)]
                /\ fs' = IF r.ok THEN fs ELSE [fs EXCEPT ![CurFile(f)] = NoFile]
       ELSE /\ frames' = [frames EXCEPT ![p].pc = "download"]
            /\ fs' = fs
  /\ UNCHANGED <<last, ncalls>>

\* (variant) a hit also asks the provider, to refresh the entry.
Lookup_Refresh(p) ==
  LET f == frames[p] IN
  /\ f.pc = "loop"
  /\ IF HitTest(f, fs)
       THEN LET r == Decode(f.fn, fs[CurFile(f)])
                g == [f EXCEPT !.reads[f.i] = @ + 1, !.calls[f.i] = @ + 1]
            IN  frames' = [frames EXCEPT ![p] =
                  IF r.ok THEN Advance(g, r.val) ELSE Raise(g, r.val.kind)]
       ELSE frames' = [frames EXCEPT ![p].pc = "download"]
  /\ UNCHANGED <<fs, last, ncalls>>

\* (variant) a cache file that does not parse is treated as a miss.
Lookup_Fallback(p) ==
  LET f == frames[p] IN
  /\ f.pc = "loop"
  /\ IF HitTest(f, fs)
       THEN LET r == Decode(f.fn, fs[CurFile(f)])
                g == [f EXCEPT !.reads[f.i] = @ + 1]
            IN  frames' = [frames EXCEPT ![p] =
                  IF r.ok THEN Advance(g, r.val) ELSE [g EXCEPT !.pc = "download"]]
       ELSE frames' = [frames EXCEPT ![p].pc = "download"]
  /\ UNCHANGED <<fs, last, ncalls>>

Lookup(p) ==
  LET f == frames[p] IN
  /\ f.pc = "loop"
  /\ IF HitTest(f, fs)
       THEN LET r == Decode(f.fn, fs[CurFile(f)])
                g == [f EXCEPT !.reads[f.i] = @ + 1]
            IN  frames' = [frames EXCEPT ![p] =
                  IF r.ok THEN Advance(g, r.val) ELSE Raise(g, r.val.kind)]
       ELSE frames' = [frames EXCEPT ![p].pc = "download"]
  /\ UNCHANGED <<fs, last, ncalls>>

\* Normalisation of the answer (get_stock_data lines 36-37).
Flatten(fn, df) ==
  IF Body(fn) = "get_stock_data" /\ df.hdr = "multi"
    THEN [df EXCEPT !.hdr = "str"] ELSE df

\* (variant) no emptiness test: whatever is not None is written.
Persist_NoTest(fn, df) ==
  CASE Body(fn) \in {"get_company_info", "get_holders_and_recommendations"} ->
         Ok(df # NoneRec)
    [] OTHER -> IF df = NoneRec THEN Err("attr") ELSE Ok(TRUE)

\* (variant) the emptiness test inverted.
Persist_Inverted(fn, df) ==
  CASE Body(fn) \in {"get_company_info", "get_holders_and_recommendations"} ->
         Ok(df # NoneRec /\ empty(df))
    [] OTHER -> IF df = NoneRec THEN Err("attr") ELSE Ok(empty(df))

\* Whether the answer is written: `not df.empty`, `if info`,
\* `df is not None and not df.empty`.  "attr" is the AttributeError of
\* None.columns / None.empty.
Persist(fn, df) ==
  CASE Body(fn) = "get_company_info" ->
         Ok(df # NoneRec /\ ~empty(df))
    [] Body(fn) = "get_holders_and_recommendations" ->
         Ok(df # NoneRec /\ ~empty(df))
    [] OTHER -> IF df = NoneRec THEN Err("attr") ELSE Ok(~empty(df))

\* (variant) the answer kept as the provider gave it, None included.
Unsaved_Raw(fn, df) == df

\* The value kept for an answer that is not written.
Unsaved(fn, df) ==
  IF Body(fn) = "get_holders_and_recommendations"
    THEN Table("range", "none", 0, "all", <<>>, "n/a")
    ELSE df

\* The answer of one provider access taken in: normalised, tested for
\* emptiness, handed to the write or kept as it is.
Answer(g, a) ==
  LET w == Persist(g.fn, a)
      df == IF a = NoneRec THEN a ELSE Flatten(g.fn, a)
      h == [g EXCEPT !.got[g.i] = df]
  IN  IF ~w.ok THEN Raise(h, w.val.kind)
      ELSE IF w.val THEN [h EXCEPT !.pc = "save", !.df = df]
      ELSE Advance(h, Unsaved(g.fn, df))

\* (variant) a provider exception is retried once instead of propagating.
Download_Retry(p) ==
  LET f == frames[p]
      g == [f EXCEPT !.calls[f.i] = @ + 1]
  IN
  /\ f.pc = "download"
  /\ \/ frames' = [frames EXCEPT ![p] =
          IF f.calls[f.i] = 0 THEN [g EXCEPT !.pfail = f.i]
          ELSE Raise([g EXCEPT !.pfail = f.i], "provider")]
     \/ \E a \in Answers(f.ticker, CurAttr(f), f.start) :
          frames' = [frames EXCEPT ![p] = Answer(g, a)]
  /\ UNCHANGED <<fs, last, ncalls>>

\* yf.download(...) / getattr(t, yf_attr) / t.info: one provider access,
\* which raises or answers.
Download(p) ==
  LET f == frames[p]
      g == [f EXCEPT !.calls[f.i] = @ + 1]
  IN
  /\ f.pc = "download"
  /\ \/ frames' = [frames EXCEPT ![p] =
          Raise([g EXCEPT !.pfail = f.i], "provider")]
     \/ \E a \in Answers(f.ticker, CurAttr(f), f.start) :
          frames' = [frames EXCEPT ![p] = Answer(g, a)]
  /\ UNCHANGED <<fs, last, ncalls>>

\* df.to_csv(cache_file) / open(cache_file, "w") + json.dump: the write
\* completes, or raises before the file is opened (nothing changes), or
\* raises after (the file is left with zero bytes or some of the rows).
WriteOutcomes == {"ok", "denied", "empty", "partial"}

\* (variant) a failed write is swallowed and the record still returned.
Save_Swallow(p) ==
  LET f == frames[p]
      c == Encode(f.fn, f.df)
  IN
  /\ f.pc = "save"
  /\ \E o \in WriteOutcomes :
       CASE o = "ok" ->
              /\ fs' = [fs EXCEPT ![CurFile(f)] = c]
              /\ frames' = [frames EXCEPT ![p] =
                   Advance([f EXCEPT !.saved[f.i] = c], f.df)]
         [] o = "denied" ->
              /\ fs' = fs
              /\ frames' = [frames EXCEPT ![p] =
                   Advance([f EXCEPT !.wfail = f.i], f.df)]
         [] OTHER ->
              /\ fs' = [fs EXCEPT ![CurFile(f)] = Truncated(c, o)]
              /\ frames' = [frames EXCEPT ![p] =
                   Advance([f EXCEPT !.wfail = f.i], f.df)]
  /\ UNCHANGED <<last, ncalls>>

\* (variant) the file opened for appending: a write to an existing entry
\* adds to what is there.
Save_Append(p) ==
  LET f == frames[p]
      c == Encode(f.fn, f.df)
      d == IF exists(fs, CurFile(f)) THEN [c EXCEPT !.cut = "appended"] ELSE c
  IN
  /\ f.pc = "save"
  /\ \E o \in WriteOutcomes :
       CASE o = "ok" ->
              /\ fs' = [fs EXCEPT ![CurFile(f)] = d]
              /\ frames' = [frames EXCEPT ![p] =
                   Advance([f EXCEPT !.saved[f.i] = d], f.df)]
         [] o = "denied" ->
              /\ fs' = fs
              /\ frames' = [frames EXCEPT ![p] =
                   Raise([f EXCEPT !.wfail = f.i], "write")]
         [] OTHER ->
              /\ fs' = [fs EXCEPT ![CurFile(f)] = Truncated(c, o)]
              /\ frames' = [frames EXCEPT ![p] =
                   Raise([f EXCEPT !.wfail = f.i], "write")]
  /\ UNCHANGED <<last, ncalls>>

Save(p) ==
  LET f == frames[p]
      c == Encode(f.fn, f.df)
  IN
  /\ f.pc = "save"
  /\ \E o \in WriteOutcomes :
       CASE o = "ok" ->
              /\ fs' = [fs EXCEPT ![CurFile(f)] = c]
              /\ frames' = [frames EXCEPT ![p] =
                   Advance([f EXCEPT !.saved[f.i] = c], f.df)]
         [] o = "denied" ->
              /\ fs' = fs
              /\ frames' = [frames EXCEPT ![p] =
                   Raise([f EXCEPT !.wfail = f.i], "write")]
         [] OTHER ->
              /\ fs' = [fs EXCEPT ![CurFile(f)] = Truncated(c, o)]
              /\ frames' = [frames EXCEPT ![p] =
                   Raise([f EXCEPT !.wfail = f.i], "write")]
  /\ UNCHANGED <<last, ncalls>>

\* The module as one process uses it: one call at a time.
Next ==
  \/ \E fn \in Fns, ticker \in Tickers, use_cache \in BOOLEAN :
       \E start \in StartsOf(fn) : Begin(Main, fn, ticker, start, use_cache)
  \/ Lookup(Main)
  \/ Download(Main)
  \/ Save(Main)

Spec == Init /\ [][Next]_vars

\* The same, with every local step of a call completing: the exists()
\* test and the read (Lookup) and the write (Save) are file operations of
\* the process itself.  The provider access is left without a fairness
\* condition: whether it returns is the provider's matter.
\* Calls are made for one ticker: which ticker it is changes the paths,
\* not the steps.
NextFair ==
  \/ \E fn \in Fns, use_cache \in BOOLEAN :
       \E start \in StartsOf(fn) : Begin(Main, fn, "A", start, use_cache)
  \/ Lookup(Main)
  \/ Download(Main)
  \/ Save(Main)

SpecFair ==
  Init /\ [][NextFair]_vars /\ WF_vars(Lookup(Main)) /\ WF_vars(Save(Main))

(* --------------------- two processes side by side ---------------------- *)

\* Two processes (two notebooks, two scripts) import the module and call
\* it on the same directory.  Nothing in data.py takes a lock, so their
\* steps interleave freely; the write is then two steps, the open that
\* truncates the file and the flush/close that puts the content there.

\* The other process.
Other(p) == CHOOSE q \in Procs : q # p

\* A call by p of one of the single-record functions, while the other
\* process is idle or works on the same data of the same ticker (a bundle
\* runs the same steps once per sub-kind).
ConcBegin(p, fn, ticker, start, use_cache) ==
  /\ NSub(fn) = 1
  /\ \/ frames[Other(p)].pc = "idle"
     \/ /\ Body(frames[Other(p)].fn) = Body(fn)
        /\ frames[Other(p)].ticker = ticker
  /\ Begin(p, fn, ticker, start, use_cache)

\* Order stamp for the next completed write.
Clock ==
  LET S == {frames[q].wdone[i] : q \in Procs, i \in Slots}
  IN  1 + CHOOSE x \in S : \A y \in S : y <= x

\* Bytes of c over what another process put in the file in the meantime:
\* c alone, or c followed by the rest of the longer content.
Mixed(c) == [c EXCEPT !.cut = "mixed"]

\* (variant) the content goes to a temporary file that replaces the entry
\* when complete: nothing is visible under the path before.
Open_Atomic(p) ==
  LET f == frames[p] IN
  /\ f.pc = "save"
  /\ \/ /\ frames' = [frames EXCEPT ![p].pc = "flush"]
        /\ fs' = fs
     \/ /\ frames' = [frames EXCEPT ![p] = Raise([f EXCEPT !.wfail = f.i], "write")]
        /\ fs' = fs
  /\ UNCHANGED <<last, ncalls>>

\* to_csv(cache_file) / open(cache_file, "w"): the file is created or
\* truncated, or the open raises and nothing changes.
Open(p) ==
  LET f == frames[p] IN
  /\ f.pc = "save"
  /\ \/ /\ frames' = [frames EXCEPT ![p].pc = "flush"]
        /\ fs' = [fs EXCEPT ![CurFile(f)] = EmptyFile]
     \/ /\ frames' = [frames EXCEPT ![p] = Raise([f EXCEPT !.wfail = f.i], "write")]
        /\ fs' = fs
  /\ UNCHANGED <<last, ncalls>>

\* The content is written and the file closed, or the write raises with
\* nothing or some of the rows written.
Flush(p) ==
  LET f == frames[p]
      c == Encode(f.fn, f.df)
      W == IF fs[CurFile(f)] \in {EmptyFile, NoFile} THEN {c} ELSE {c, Mixed(c)}
  IN
  /\ f.pc = "flush"
  /\ \/ \E d \in W :
          /\ fs' = [fs EXCEPT ![CurFile(f)] = d]
          /\ frames' = [frames EXCEPT ![p] =
               Advance([f EXCEPT !.saved[f.i] = d, !.wdone[f.i] = Clock], f.df)]
     \/ /\ fs' = fs
        /\ frames' = [frames EXCEPT ![p] = Raise([f EXCEPT !.wfail = f.i], "write")]
     \/ /\ fs' = [fs EXCEPT ![CurFile(f)] = Truncated(c, "partial")]
        /\ frames' = [frames EXCEPT ![p] = Raise([f EXCEPT !.wfail = f.i], "write")]
  /\ UNCHANGED <<last, ncalls>>

NextConc ==
  \E p \in Procs :
    \/ \E fn \in Fns, ticker \in Tickers, use_cache \in BOOLEAN :
         \E start \in StartsOf(fn) : ConcBegin(p, fn, ticker, start, use_cache)
    \/ Lookup(p)
    \/ Download(p)
    \/ Open(p)
    \/ Flush(p)

SpecConc == Init /\ [][NextConc]_vars

(* ------------------------ property vocabulary -------------------------- *)

\* The activation the sequential specification runs.
F == frames[Main]

SubKinds(f) == IF f.pc = "idle" THEN {} ELSE 1..NSub(f.fn)

\* cache_file of sub-kind i of the call.
SlotFile(f, i) == cache_file(f.fn, f.ticker, types(f.fn)[i][1])

SlotAttr(f, i) == types(f.fn)[i][2]

NonEmpty(r) == r.t \in {"table", "dict"} /\ r.v # 0

IsEmpty(r) == r.t \in {"table", "dict"} /\ r.v = 0

\* Sub-kind i has gone through its hit/miss decision and what follows it.
Decided(f, i) == i < f.i \/ (f.pc \in {"returned", "raised"} /\ i = f.i)

\* Sub-kind i was completed without an exception.
Resolved(f, i) == i < f.i \/ f.pc = "returned"

\* What the caller receives for a record: get_treasury_yield hands out the
\* Close column.
View(fn, r) == IF fn = "get_treasury_yield" THEN Close(r) ELSE r

(* -------------------------------- C1 ----------------------------------- *)

\* C1: when the previous call fetched a non-empty record for a key from the
\* provider, wrote it and returned normally, the call that follows it for
\* the same data and ticker with use_cache=True makes no provider access
\* for that key, does not raise on it, and returns the decoded content of
\* the entry the previous call wrote.
C1_SecondFetchServedFromCache ==
  (F.pc # "idle" /\ F.use_cache /\ last.pc = "returned") =>
    \A i \in SubKinds(F) :
      last.saved[i] # NoFile =>
        /\ F.calls[i] = 0
        /\ ~(F.pc = "raised" /\ F.i = i)
        /\ Resolved(F, i) =>
             /\ F.reads[i] = 1
             /\ F.result[i] = View(F.fn, Decode(F.fn, last.saved[i]).val)

C1_Witness ==
  /\ F.pc = "returned" /\ F.use_cache /\ last.pc = "returned"
  /\ F.fn = "get_company_financials"
  /\ \A i \in 1..3 : last.saved[i] # NoFile /\ F.reads[i] = 1 /\ F.calls[i] = 0

(* -------------------------------- C2 ----------------------------------- *)

\* C2: a sub-kind whose provider answer is empty (no rows, empty dict) gets
\* no cache write: the file of its key is as the call found it; and when
\* the previous call got an empty answer for a key and the key still has no
\* file, the next call accesses the provider for it again.
C2_EmptyResultNotCached ==
  /\ \A i \in SubKinds(F) :
       IsEmpty(F.got[i]) =>
         /\ F.saved[i] = NoFile
         /\ fs[SlotFile(F, i)] = F.fs0[SlotFile(F, i)]
  /\ last.pc = "returned" =>
       \A i \in SubKinds(F) :
         (IsEmpty(last.got[i]) /\ ~exists(F.fs0, SlotFile(F, i)) /\ Decided(F, i))
           => F.calls[i] = 1

C2_Witness ==
  /\ F.pc = "returned" /\ F.use_cache /\ last.pc = "returned"
  /\ F.fn = "get_holders_and_recommendations"
  /\ IsEmpty(last.got[2]) /\ IsEmpty(F.got[2]) /\ F.calls[2] = 1
  /\ ~exists(fs, SlotFile(F, 2))

(* -------------------------------- C3 ----------------------------------- *)

\* A file that is the complete encoding of a record.
Complete(c) == c.t \in {"csv", "json"} /\ c.cut = "none"

\* C3 (as stated in the specification): whatever the arguments of a call, use_cache=False
\* included, every entry the call found (a complete encoding written by an
\* earlier fetch) keeps its content; stated for calls none of whose writes
\* failed, so that what changes an entry is an ordinary rewrite.
C3_WriteOnce ==
  F.wfail = 0 =>
    \A path \in Paths : Complete(F.fs0[path]) => fs[path] = F.fs0[path]

\* C3 (amended): a call with use_cache=True leaves every entry it found as
\* it was, and no call ever deletes an entry; a call with use_cache=False
\* may rewrite the entry of a key it fetches.
C3_WriteOnceWhenCacheUsed ==
  \A path \in Paths :
    exists(F.fs0, path) =>
      /\ exists(fs, path)
      /\ F.use_cache => fs[path] = F.fs0[path]

C3_Witness ==
  /\ F.pc = "returned" /\ F.use_cache
  /\ \E i, j \in SubKinds(F) :
       /\ exists(F.fs0, SlotFile(F, i)) /\ F.reads[i] = 1
       /\ F.saved[j] # NoFile

(* -------------------------------- C4 ----------------------------------- *)

\* C4: when a call returns, every sub-kind for which it got a non-empty
\* record from the provider has a cache file holding the encoding of that
\* record, and that record is what the caller receives.
C4_WriteThroughBeforeReturn ==
  F.pc = "returned" =>
    \A i \in SubKinds(F) :
      (F.calls[i] >= 1 /\ NonEmpty(F.got[i])) =>
        /\ exists(fs, SlotFile(F, i))
        /\ fs[SlotFile(F, i)] = Encode(F.fn, F.got[i])
        /\ F.result[i] = View(F.fn, F.got[i])

C4_Witness ==
  /\ F.pc = "returned" /\ F.fn = "get_company_info"
  /\ F.calls[1] = 1 /\ NonEmpty(F.got[1])
  /\ fs[SlotFile(F, 1)] = json_dump(F.got[1])

(* -------------------------------- C5 ----------------------------------- *)

C6_NoCrossKeyRead ==
  \A i \in SubKinds(F) :
    (Resolved(F, i) /\ F.reads[i] = 1) =>
      F.result[i].q = <<F.ticker, SlotAttr(F, i)>>

(* -------------------------------- C7 ----------------------------------- *)

Bundles == {"get_company_financials", "get_quarterly_financials",
            "get_holders_and_recommendations"}

\* C7: in a bundle call with use_cache=True each sub-kind is resolved on
\* its own file alone: if the file was there it is read (no provider
\* access, file untouched), and if not the provider is accessed once and a
\* non-empty answer is written to the file, an empty one is not.
C7_PartialBundleResolution ==
  (F.pc # "idle" /\ F.fn \in Bundles /\ F.use_cache) =>
    \A i \in SubKinds(F) :
      Resolved(F, i) =>
        IF exists(F.fs0, SlotFile(F, i))
          THEN /\ F.reads[i] = 1 /\ F.calls[i] = 0
               /\ F.result[i] = Decode(F.fn, F.fs0[SlotFile(F, i)]).val
               /\ fs[SlotFile(F, i)] = F.fs0[SlotFile(F, i)]
          ELSE /\ F.reads[i] = 0 /\ F.calls[i] = 1
               /\ NonEmpty(F.got[i]) =>
                    fs[SlotFile(F, i)] = Encode(F.fn, F.got[i])
               /\ ~NonEmpty(F.got[i]) => ~exists(fs, SlotFile(F, i))

\* Only balance_sheet cached beforehand; the other two fetched and cached.
C7_Witness ==
  /\ F.pc = "returned" /\ F.fn = "get_company_financials" /\ F.use_cache
  /\ ~exists(F.fs0, SlotFile(F, 1))
  /\ exists(F.fs0, SlotFile(F, 2))
  /\ ~exists(F.fs0, SlotFile(F, 3))
  /\ F.calls = <<1, 0, 1>> /\ F.reads = <<0, 1, 0>>
  /\ \A i \in 1..3 : exists(fs, SlotFile(F, i))

(* -------------------------------- C8 ----------------------------------- *)

\* C8: when a provider access raises, the call raises at once: that was
\* the only access for the key, the key's file is as the call found it, no
\* value is produced and no later sub-kind is attempted.
C8_ProviderFailureFatal ==
  F.pfail # 0 =>
    /\ F.pc = "raised" /\ F.err = "provider" /\ F.i = F.pfail
    /\ F.calls[F.pfail] = 1
    /\ fs[SlotFile(F, F.pfail)] = F.fs0[SlotFile(F, F.pfail)]
    /\ F.result[F.pfail] = NoVal /\ F.saved[F.pfail] = NoFile
    /\ \A j \in SubKinds(F) :
         j > F.pfail => F.calls[j] = 0 /\ F.reads[j] = 0

C8_Witness ==
  /\ F.pfail = 3 /\ F.pc = "raised" /\ F.err = "provider"
  /\ F.saved[1] # NoFile /\ F.saved[2] # NoFile

(* -------------------------------- C9 ----------------------------------- *)

\* C9: every file in the cache directory is the complete encoding of a
\* record: none is empty or cut short.
C9_WholesaleOrNothing ==
  \A path \in Paths :
    exists(fs, path) => Complete(fs[path])

(* -------------------------------- C10 ---------------------------------- *)

\* C10: for every sub-kind a call has dealt with, the cache file was read
\* once and the provider not accessed if use_cache held and the file
\* existed when the call began; otherwise the provider was accessed once
\* and the file not read.  What the file holds does not enter into it.
C10_HitMissRule ==
  \A i \in SubKinds(F) :
    /\ Decided(F, i) =>
         IF F.use_cache /\ exists(F.fs0, SlotFile(F, i))
           THEN F.reads[i] = 1 /\ F.calls[i] = 0
           ELSE F.reads[i] = 0 /\ F.calls[i] = 1
    /\ i > F.i => F.reads[i] = 0 /\ F.calls[i] = 0

\* A zero-byte file counted as a hit.
C10_Witness ==
  /\ F.pc = "raised" /\ F.err = "decode" /\ F.use_cache
  /\ F.fs0[SlotFile(F, F.i)] = EmptyFile
  /\ F.reads[F.i] = 1 /\ F.calls[F.i] = 0

(* -------------------------------- C11 ---------------------------------- *)

Statements == {"get_company_financials", "get_quarterly_financials"}

\* C11: on a cache hit for an annual or quarterly statement sub-kind whose
\* file parses as delimited text, no exception leaves the fetch at that
\* sub-kind and the provider is not accessed for it; the table handed on
\* is the parsed table with date-typed headers when the header line spells
\* dates, and with its headers as the strings they are when it does not.
C11_HeaderParseFailureTolerated ==
  \A i \in SubKinds(F) :
    LET c == F.fs0[SlotFile(F, i)]
        r == read_csv(c, TRUE, FALSE)
    IN  (/\ F.fn \in Statements /\ F.use_cache /\ Decided(F, i)
         /\ exists(F.fs0, SlotFile(F, i)) /\ r.ok) =>
          /\ Resolved(F, i)
          /\ F.reads[i] = 1 /\ F.calls[i] = 0
          /\ F.result[i] =
               [r.val EXCEPT !.hdr = IF c.hdr = "datetext" THEN "date" ELSE "str"]

\* A statement bundle returned with a sub-kind read from a file whose
\* headers are not dates: they stay strings.
C11_Witness ==
  /\ F.pc = "returned" /\ F.fn \in Statements /\ F.use_cache
  /\ \E i \in 1..3 :
       /\ exists(F.fs0, SlotFile(F, i))
       /\ F.fs0[SlotFile(F, i)].t = "csv"
       /\ F.fs0[SlotFile(F, i)].hdr = "text"
       /\ F.reads[i] = 1 /\ F.calls[i] = 0
       /\ F.result[i].hdr = "str" /\ F.result[i].v > 0

(* -------------------------------- C12 ---------------------------------- *)

\* The file does not pass the parse the function's read starts with:
\* pd.read_csv for the tables, json.load for the info document.
Malformed(fn, c) ==
  CASE Body(fn) = "get_company_info" -> ~json_load(c).ok
    [] Body(fn) = "get_holders_and_recommendations" ->
         ~read_csv(c, FALSE, FALSE).ok
    [] OTHER -> ~read_csv(c, TRUE, FALSE).ok

\* C12: when a call that uses the cache comes to a sub-kind whose file
\* exists and does not parse, the call ends there with the parse error:
\* the provider is not accessed for that sub-kind and the file stays as it
\* was found.
C12_DecodeFailureFatal ==
  \A i \in SubKinds(F) :
    (/\ F.use_cache /\ exists(F.fs0, SlotFile(F, i))
     /\ Malformed(F.fn, F.fs0[SlotFile(F, i)])
     /\ (Decided(F, i) \/ (F.i = i /\ F.pc \in {"download", "save"}))) =>
      /\ F.pc = "raised" /\ F.i = i /\ F.err = "decode"
      /\ F.reads[i] = 1 /\ F.calls[i] = 0
      /\ fs[SlotFile(F, i)] = F.fs0[SlotFile(F, i)]

\* A call ended by the parse error of a file it found, the file untouched.
C12_Witness ==
  /\ F.pc = "raised" /\ F.err = "decode" /\ F.use_cache
  /\ Malformed(F.fn, F.fs0[CurFile(F)])
  /\ F.fs0[CurFile(F)] # NoFile
  /\ fs[CurFile(F)] = F.fs0[CurFile(F)]
  /\ F.reads[F.i] = 1 /\ F.calls[F.i] = 0

(* -------------------------------- C13 ---------------------------------- *)

\* C13: what a call wrote for a sub-kind reads back, through the read of
\* the same function, as the record the provider gave (index and header
\* types included); and when the previous call fetched, wrote and returned
\* a non-empty record for a sub-kind, a hit of the present call on that
\* sub-kind hands out that same record.
C13_RoundTrip ==
  /\ \A i \in SubKinds(F) :
       F.saved[i] # NoFile =>
         Decode(F.fn, F.saved[i]) = Ok(F.got[i])
  /\ (F.pc # "idle" /\ F.use_cache /\ last.pc = "returned") =>
       \A i \in SubKinds(F) :
         (NonEmpty(last.got[i]) /\ Resolved(F, i)) =>
           F.result[i] = View(F.fn, last.got[i])

\* Both halves at work: a statement bundle written by one call, with
\* date headers and with string headers, and handed out again from the
\* cache by the next.
C13_Witness ==
  /\ F.pc = "returned" /\ F.use_cache /\ last.pc = "returned"
  /\ F.fn \in Statements
  /\ \A i \in 1..3 : NonEmpty(last.got[i]) /\ F.reads[i] = 1
  /\ F.result[1].hdr = "date" /\ F.result[2].hdr = "str"
  /\ F.result[1] = last.got[1] /\ F.result[2] = last.got[2]

(* -------------------------------- C14 ---------------------------------- *)

\* C14: when the previous call wrote a non-empty record for a sub-kind and
\* the present call, made with use_cache=False, is given the same record
\* by the provider and writes it again, the file of that sub-kind is after
\* the second write what it was after the first.
C14_WriteIdempotent ==
  (F.pc # "idle" /\ ~F.use_cache /\ last.pc = "returned") =>
    \A i \in SubKinds(F) :
      (/\ NonEmpty(last.got[i]) /\ last.saved[i] # NoFile
       /\ F.got[i] = last.got[i] /\ Resolved(F, i)) =>
        /\ F.saved[i] = last.saved[i]
        /\ fs[SlotFile(F, i)] = last.saved[i]
        /\ fs[SlotFile(F, i)] = F.fs0[SlotFile(F, i)]

\* Two consecutive fetches of a record, the second with use_cache=False,
\* answered alike and written twice.
C14_Witness ==
  /\ F.pc = "returned" /\ ~F.use_cache /\ last.pc = "returned"
  /\ \E i \in SubKinds(F) :
       /\ NonEmpty(F.got[i]) /\ F.got[i] = last.got[i]
       /\ F.saved[i] # NoFile /\ last.saved[i] # NoFile
       /\ fs[SlotFile(F, i)] = F.fs0[SlotFile(F, i)]

(* -------------------------------- C15 ---------------------------------- *)

\* The provider was asked for sub-kind i and gave no data.
NoData(f, i) == f.calls[i] = 1 /\ (f.got[i] = NoneRec \/ IsEmpty(f.got[i]))

\* C15 (as stated in the specification): a bundle call that returned has a
\* table under each of its three names, and a sub-kind for which the
\* provider gave no data has an empty table and no file.  (Files left by
\* a failed write are set aside: a complete entry already shows it.)
C15_BundleShape ==
  (F.pc = "returned" /\ F.fn \in Bundles) =>
    \A i \in 1..3 :
      /\ F.result[i].t = "table"
      /\ (/\ NoData(F, i)
          /\ exists(F.fs0, SlotFile(F, i)) => Complete(F.fs0[SlotFile(F, i)])) =>
           IsEmpty(F.result[i]) /\ ~exists(fs, SlotFile(F, i))

\* C15: a bundle call that returned has a table under each of its three
\* names; a sub-kind for which the provider gave no data has an empty
\* table and nothing was written for it: its file is as the call found
\* it, which is absent when the call used the cache.
C15_BundleShapeNoWrite ==
  (F.pc = "returned" /\ F.fn \in Bundles) =>
    \A i \in 1..3 :
      /\ F.result[i].t = "table"
      /\ NoData(F, i) =>
           /\ IsEmpty(F.result[i])
           /\ F.saved[i] = NoFile
           /\ fs[SlotFile(F, i)] = F.fs0[SlotFile(F, i)]
           /\ F.use_cache => ~exists(fs, SlotFile(F, i))

\* A bundle returned from a hit, a non-empty miss and a miss answered
\* with None.
C15_Witness ==
  /\ F.pc = "returned" /\ F.fn \in Bundles /\ F.use_cache
  /\ F.reads[1] = 1 /\ F.calls[1] = 0
  /\ NonEmpty(F.got[2]) /\ F.saved[2] # NoFile
  /\ F.got[3] = NoneRec /\ IsEmpty(F.result[3])
  /\ ~exists(fs, SlotFile(F, 3))

(* -------------------------------- C16 ---------------------------------- *)

\* The activation a call starts with (the frame Begin builds).
StartFrame(fn, ticker, start, use_cache, store) ==
  [IdleFrame EXCEPT !.pc = "loop", !.fn = fn, !.ticker = ticker,
                    !.start = start, !.use_cache = use_cache, !.fs0 = store]

\* The ways the write of h's record can end, with the directory each
\* leaves (lines 39-42).
WriteAll(h, store) ==
  LET c == Encode(h.fn, h.df) IN
  {[f |-> Advance([h EXCEPT !.saved[h.i] = c], h.df),
    fs |-> [store EXCEPT ![CurFile(h)] = c]],
   [f |-> Raise([h EXCEPT !.wfail = h.i], "write"), fs |-> store]}
  \cup
  {[f |-> Raise([h EXCEPT !.wfail = h.i], "write"),
    fs |-> [store EXCEPT ![CurFile(h)] = Truncated(c, o)]] :
     o \in WriteOutcomes \ {"ok", "denied"}}

\* get_stock_data run from start to end as one step: every way a call
\* with activation f0 can end on directory store, as the final activation
\* and the final directory (lines 24-44).
RunRecord(f0, store) ==
  IF HitTest(f0, store) THEN
    LET r == Decode(f0.fn, store[CurFile(f0)])
        g == [f0 EXCEPT !.reads[f0.i] = @ + 1]
    IN  {[f |-> IF r.ok THEN Advance(g, r.val) ELSE Raise(g, r.val.kind),
          fs |-> store]}
  ELSE
    LET g == [f0 EXCEPT !.calls[f0.i] = @ + 1] IN
    {[f |-> Raise([g EXCEPT !.pfail = f0.i], "provider"), fs |-> store]}
    \cup
    UNION {LET h == Answer(g, a)
           IN  IF h.pc = "save" THEN WriteAll(h, store)
               ELSE {[f |-> h, fs |-> store]} :
             a \in Answers(f0.ticker, CurAttr(f0), f0.start)}

\* Activation f of get_treasury_yield and outcome o of get_stock_data made
\* the same provider accesses, cache reads and writes, and f hands out the
\* Close column of what o returns (or both ended by the same exception).
Twin(f, store, o) ==
  /\ store = o.fs
  /\ f.calls = o.f.calls /\ f.reads = o.f.reads
  /\ f.got = o.f.got /\ f.saved = o.f.saved
  /\ f.pfail = o.f.pfail /\ f.wfail = o.f.wfail
  /\ IF o.f.pc = "returned"
       THEN f.pc = "returned" /\ f.result[1] = Close(o.f.result[1])
       ELSE f.pc = "raised" /\ f.err = o.f.err

\* C16: every finished call of get_stock_data ended in one of the ways of
\* RunRecord, and every finished call of get_treasury_yield is the twin of
\* one of the ways get_stock_data ends with the same ticker, start,
\* use_cache and directory.
C16_TreasuryIsStockClose ==
  /\ (F.fn = "get_stock_data" /\ F.pc \in {"returned", "raised"}) =>
       [f |-> F, fs |-> fs] \in
         RunRecord(StartFrame(F.fn, F.ticker, F.start, F.use_cache, F.fs0), F.fs0)
  /\ (F.fn = "get_treasury_yield" /\ F.pc \in {"returned", "raised"}) =>
       \E o \in RunRecord(StartFrame("get_stock_data", F.ticker, F.start,
                                     F.use_cache, F.fs0), F.fs0) :
         Twin(F, fs, o)

\* get_treasury_yield returned the Close column of a table it fetched
\* and wrote under <ticker>.csv.
C16_Witness ==
  /\ F.fn = "get_treasury_yield" /\ F.pc = "returned"
  /\ F.calls[1] = 1 /\ F.saved[1] # NoFile
  /\ fs[cache_file("get_stock_data", F.ticker, "")] = F.saved[1]
  /\ F.result[1].t = "series" /\ F.result[1].v > 0

(* -------------------------------- C17 ---------------------------------- *)

\* C17: with two processes on the same directory, (a) while the write of
\* one is in progress the file exists for the other, whose cache test
\* succeeds on it; (b) when both found no entry for a path and both
\* completed a write to it, the file holds what the one whose write
\* completed last put there, which is that process's record unless the
\* two writes overlapped.
C17_LastWriterWins ==
  \A p \in Procs :
    LET f == frames[p]
        g == frames[Other(p)]
    IN  /\ f.pc = "flush" =>
             /\ exists(fs, CurFile(f))
             /\ (g.pc = "loop" /\ g.use_cache /\ CurFile(g) = CurFile(f)) =>
                  HitTest(g, fs)
        /\ \A i \in SubKinds(f), j \in SubKinds(g) :
             (/\ SlotFile(f, i) = SlotFile(g, j)
              /\ f.fs0[SlotFile(f, i)] = NoFile /\ g.fs0[SlotFile(g, j)] = NoFile
              /\ g.wdone[j] > 0 /\ f.wdone[i] > g.wdone[j]) =>
               /\ fs[SlotFile(f, i)] = f.saved[i]
               /\ Complete(f.saved[i]) => f.saved[i] = Encode(f.fn, f.got[i])

\* Both processes found no entry, both asked the provider, both wrote
\* the same path with different records; the file is the later one's.
C17_Witness ==
  LET f == frames["p1"]
      g == frames["p2"]
  IN  /\ f.pc = "returned" /\ g.pc = "returned"
      /\ f.use_cache /\ g.use_cache
      /\ CurFile(f) = CurFile(g)
      /\ f.fs0[CurFile(f)] = NoFile /\ g.fs0[CurFile(g)] = NoFile
      /\ f.calls[1] = 1 /\ g.calls[1] = 1
      /\ f.wdone[1] > 0 /\ g.wdone[1] > f.wdone[1]
      /\ Complete(f.saved[1]) /\ Complete(g.saved[1])
      /\ f.saved[1] # g.saved[1]
      /\ fs[CurFile(g)] = g.saved[1]

(* -------------------------------- C18 ---------------------------------- *)

\* Provider accesses of the call, all sub-kinds together.
TotalCalls(f) == f.calls[1] + f.calls[2] + f.calls[3]

\* Sub-kinds of the call served from the cache.
Served(f) == {i \in SubKinds(f) : f.reads[i] = 1 /\ f.calls[i] = 0}

\* C18: a call asks the provider at most once and reads the cache at most
\* once per sub-kind; the sub-kinds are taken in the order of the list,
\* each one done with by a read or by a provider access before the next
\* is touched; and a call that returned asked the provider once for each
\* sub-kind it did not serve from the cache and for no other.
C18_ProviderCallCount ==
  /\ \A i \in SubKinds(F) :
       /\ F.calls[i] <= 1 /\ F.reads[i] <= 1
       /\ (F.calls[i] + F.reads[i] > 0) => i <= F.i
       /\ i < F.i => F.calls[i] + F.reads[i] = 1
  /\ F.pc = "returned" =>
       /\ TotalCalls(F) = NSub(F.fn) - Cardinality(Served(F))
       /\ \A i \in SubKinds(F) : F.calls[i] = 1 <=> i \notin Served(F)

\* A bundle returned with its first sub-kind from the cache and the other
\* two from the provider: two provider accesses.
C18_Witness ==
  /\ F.pc = "returned" /\ F.fn \in Bundles
  /\ F.reads = <<1, 0, 0>> /\ F.calls = <<0, 1, 1>>
  /\ TotalCalls(F) = 2

(* -------------------------------- C19 ---------------------------------- *)

\* C19 (as stated in the specification): when the provider's answer for a
\* sub-kind carries no data (None, an empty table, an empty dict) the call
\* gets past that sub-kind without an exception and writes nothing for it.
C19_NoDataIsNormal ==
  \A i \in SubKinds(F) :
    (Decided(F, i) /\ NoData(F, i)) =>
      /\ Resolved(F, i)
      /\ F.saved[i] = NoFile
      /\ fs[SlotFile(F, i)] = F.fs0[SlotFile(F, i)]

(* -------------------------------- C20 ---------------------------------- *)

\* C20 (as stated in the specification): when a bundle call raised at its
\* second or third sub-kind, what it wrote for the earlier sub-kinds is in
\* place and the later sub-kinds were not touched; and the call that
\* follows for the same bundle, using the cache, is served from the cache
\* for the earlier sub-kinds it has entries for and takes up the failed
\* sub-kind afresh: it reads it only from a complete entry, never from
\* what the failure left.
C20_ResumeAfterFailure ==
  /\ (F.pc = "raised" /\ F.fn \in Bundles /\ F.i >= 2) =>
       /\ \A j \in 1..(F.i - 1) :
            F.saved[j] # NoFile => fs[SlotFile(F, j)] = F.saved[j]
       /\ \A j \in (F.i + 1)..3 :
            /\ F.calls[j] = 0 /\ F.reads[j] = 0 /\ F.saved[j] = NoFile
            /\ fs[SlotFile(F, j)] = F.fs0[SlotFile(F, j)]
  /\ (/\ last.pc = "raised" /\ last.fn \in Bundles /\ last.i >= 2
      /\ F.pc # "idle" /\ F.use_cache) =>
       /\ \A j \in 1..(last.i - 1) :
            (last.saved[j] # NoFile /\ Decided(F, j)) =>
              /\ Resolved(F, j)
              /\ F.reads[j] = 1 /\ F.calls[j] = 0
       /\ (Decided(F, last.i) /\ F.reads[last.i] = 1) =>
            Complete(F.fs0[SlotFile(F, last.i)])

(* -------------------------------- C21 ---------------------------------- *)

\* Every file the call asks for was there when it began.
AllCached(f) == \A i \in SubKinds(f) : exists(f.fs0, SlotFile(f, i))

\* C21: throughout a call that uses the cache and found a file for each
\* of its sub-kinds, and after it, returned or raised, the directory is
\* what it was when the call began; the call asks the provider for
\* nothing and writes nothing.
C21_HitIsReadOnly ==
  (F.pc # "idle" /\ F.use_cache /\ AllCached(F)) =>
    /\ fs = F.fs0
    /\ \A i \in SubKinds(F) : F.calls[i] = 0 /\ F.saved[i] = NoFile
    /\ F.pc \in {"loop", "returned", "raised"}
    /\ F.pc = "raised" => F.err \in {"decode", "key"}

\* A bundle call that found its three files, read two and was ended by
\* the parse error of the third: the directory is as it was.
C21_Witness ==
  /\ F.fn \in Bundles /\ F.use_cache /\ AllCached(F)
  /\ F.pc = "raised" /\ F.err = "decode" /\ F.i = 3
  /\ F.reads = <<1, 1, 1>>
  /\ fs = F.fs0

(* -------------------------------- C22 ---------------------------------- *)

Prices == {"get_stock_data", "get_treasury_yield"}

\* C22: a finished call of get_stock_data or get_treasury_yield that uses
\* the cache and found <ticker>.csv did not ask the provider and left the
\* directory alone; from a complete file it returned the rows and the
\* range of the file, whatever start it was called with; and it ended as
\* the same call with any other start ends: same outcome, same result.
C22_PriceKeyIgnoresRange ==
  LET c == F.fs0[SlotFile(F, 1)] IN
  (/\ F.fn \in Prices /\ F.pc \in {"returned", "raised"}
   /\ F.use_cache /\ exists(F.fs0, SlotFile(F, 1))) =>
    /\ F.calls[1] = 0 /\ F.reads[1] = 1 /\ fs = F.fs0
    /\ Complete(c) =>
         /\ F.pc = "returned"
         /\ F.result[1].rng = c.rng /\ F.result[1].v = c.v
         /\ F.result[1].rows = "all" /\ F.result[1].idx = "date"
    /\ [f |-> F, fs |-> fs] \in
         RunRecord(StartFrame(F.fn, F.ticker, F.start, TRUE, F.fs0), F.fs0)
    /\ \A s \in Starts :
         \A o \in RunRecord(StartFrame(F.fn, F.ticker, s, TRUE, F.fs0), F.fs0) :
           /\ o.f.pc = F.pc /\ o.f.err = F.err
           /\ o.f.result = F.result
           /\ o.f.calls = F.calls /\ o.fs = fs

\* A hit that returned rows of another range than the one asked for.
C22_Witness ==
  /\ F.fn \in Prices /\ F.pc = "returned" /\ F.use_cache
  /\ Complete(F.fs0[SlotFile(F, 1)])
  /\ F.reads[1] = 1 /\ F.calls[1] = 0
  /\ F.result[1].v > 0
  /\ F.start = "2019-01-01" /\ F.result[1].rng = "2023-01-01"

(* -------------------------------- C23 ---------------------------------- *)

Running(f) == f.pc \in {"loop", "download", "save"}

\* Steps a running call has left at most: three per sub-kind (test or
\* read, provider access, write).
Rank(f) ==
  IF ~Running(f) THEN 0
  ELSE 3 * (NSub(f.fn) - f.i) +
       (CASE f.pc = "loop" -> 3 [] f.pc = "download" -> 2 [] OTHER -> 1)

\* C23: every step of a running call brings it nearer its end and never
\* back to an earlier sub-kind; a running call always has a step to take;
\* with the file operations completing, a running call ends or waits at
\* a provider access, and if the provider accesses complete as well it
\* returns or raises.
C23_Terminates ==
  /\ [][Running(F) =>
          /\ Rank(F') < Rank(F)
          /\ F'.i \in {F.i, F.i + 1}
          /\ F'.fn = F.fn /\ F'.ticker = F.ticker]_vars
  /\ [](Running(F) =>
          ENABLED (Lookup(Main) \/ Download(Main) \/ Save(Main)))
  /\ Running(F) ~> (~Running(F) \/ F.pc = "download")
  /\ WF_vars(Download(Main)) => (Running(F) ~> ~Running(F))

\* A bundle call that went the longest way, three provider accesses and
\* three writes, and returned.
C23_Witness ==
  /\ F.fn \in Bundles /\ F.pc = "returned" /\ Rank(F) = 0
  /\ \A i \in 1..3 : F.calls[i] = 1 /\ F.saved[i] # NoFile

====
